---- MODULE Spec2Model ----
(***************************************************************************)
(* Builtin presets of delta (src/preset.rs): the two-level map             *)
(* (preset name) -> (option name) -> (value function), the value function  *)
(* the builtin_preset! macro builds for every (option, git config key,     *)
(* value expression) triple, and the typed lookup of a value function.     *)
(***************************************************************************)
EXTENDS Naturals, Sequences, FiniteSets, TLC

\* ------------------------------------------------------------------------
\* Option<T>: None is the empty tuple, Some(v) the one-element tuple.
None == <<>>
Some(v) == <<v>>
IsSome(o) == o # <<>>
Unwrap(o) == o[1]

\* ------------------------------------------------------------------------
\* Bounds of the model.
MaxCalls == 2
MaxPresets == 3

\* ------------------------------------------------------------------------
\* State.
VARIABLES
    registry,        \* the map make_builtin_presets() built
    opt,             \* the cli::Opt value functions are called with
    git_config,      \* the Option<GitConfig> value functions are called with
    calls,           \* value function calls made with this opt and git_config
    ret,             \* what the last lookup returned
    cli,             \* the options given on the command line, with values
    presets,         \* the preset names of --presets, in order
    pc,              \* the resolver's position
    i,               \* index of the current preset name
    k,               \* index of the current option
    preset,          \* the builtin preset found for the current name
    value_function,  \* the value function found for the current option
    value            \* what the value function returned

vars == <<registry, opt, git_config, calls, ret, cli, presets, pc, i, k, preset,
          value_function, value>>

resolver_vars == <<cli, presets, pc, i, k, preset, value_function, value>>

\* ------------------------------------------------------------------------
\* The value expressions ($value:expr) that occur in the two presets, each
\* evaluated with $opt bound to the cli::Opt the closure is called with and
\* with the `bold` the closure captured.
Literal(s) == [expr |-> "to_string", arg |-> s, alt |-> s]
IfBold(s, t) == [expr |-> "if_bold", arg |-> s, alt |-> t]
Clone(field) == [expr |-> "clone", arg |-> field, alt |-> field]
FormatReverse(field) == [expr |-> "format_reverse", arg |-> field, alt |-> field]

\* The fields of cli::Opt a value expression reads.
Reads(e) ==
    IF e.expr \in {"clone", "format_reverse"} THEN {e.arg} ELSE {}

\* As EvalValue, but format! drops the modifier.
EvalValueNoReverse(e, bold, snapshot) ==
    CASE e.expr = "to_string" -> e.arg
      [] e.expr = "if_bold" -> (IF bold THEN e.arg ELSE e.alt)
      [] e.expr = "clone" -> snapshot[e.arg]
      [] e.expr = "format_reverse" -> snapshot[e.arg]

EvalValue(e, bold, snapshot) ==
    CASE e.expr = "to_string" -> e.arg
      [] e.expr = "if_bold" -> (IF bold THEN e.arg ELSE e.alt)
      [] e.expr = "clone" -> snapshot[e.arg]
      [] e.expr = "format_reverse" -> snapshot[e.arg] \o " reverse"

\* ------------------------------------------------------------------------
\* GitConfig: a map from dotted key to string; get::<String>(key).
GitConfigGet(config, key) ==
    IF key \in DOMAIN config THEN Some(config[key]) ELSE None

\* ------------------------------------------------------------------------
\* builtin_preset!: one (option name, value function) pair per triple. A
\* value function is the closure's captured data: the git config key, the
\* value expression and the captured `bold`.
Triple(option_name, git_config_key, e) ==
    [option_name |-> option_name, git_config_key |-> git_config_key, value |-> e]

builtin_preset(triples, bold) ==
    [n \in 1..Len(triples) |->
        <<triples[n].option_name,
          [git_config_key |-> triples[n].git_config_key,
           value |-> triples[n].value,
           bold |-> bold]>>]

\* As CallValueFunction, but the git config is never consulted.
CallNoConfig(f, snapshot, config) ==
    EvalValue(f.value, f.bold, snapshot)

\* As CallValueFunction, but the git config entry is consulted by the first
\* call only.
CallValueFunctionOnce(f, snapshot, config) ==
    LET entry == IF IsSome(config) /\ IsSome(f.git_config_key) /\ calls = <<>>
                 THEN GitConfigGet(Unwrap(config), Unwrap(f.git_config_key))
                 ELSE None
    IN IF IsSome(entry) THEN Unwrap(entry) ELSE EvalValue(f.value, f.bold, snapshot)

\* The body of the closure: the git config entry when there is a git config,
\* a key and an entry for the key, else the value expression.
CallValueFunction(f, snapshot, config) ==
    LET entry == IF IsSome(config) /\ IsSome(f.git_config_key)
                 THEN GitConfigGet(Unwrap(config), Unwrap(f.git_config_key))
                 ELSE None
    IN IF IsSome(entry) THEN Unwrap(entry) ELSE EvalValue(f.value, f.bold, snapshot)

\* Iterator::collect into a HashMap: the last pair with a key wins.
Collect(pairs) ==
    [key \in {pairs[n][1] : n \in DOMAIN pairs} |->
        pairs[CHOOSE n \in DOMAIN pairs :
                /\ pairs[n][1] = key
                /\ \A m \in DOMAIN pairs : pairs[m][1] = key => m <= n][2]]

\* As DiffHighlightTriples, but minus-style is taken from minus-emph-style.
DiffHighlightTriplesCyclic ==
    << Triple("minus-style", Some("color.diff.old"), Clone("minus-emph-style")),
       Triple("minus-non-emph-style", Some("color.diff-highlight.oldNormal"),
              Clone("minus-style")),
       Triple("minus-emph-style", Some("color.diff-highlight.oldHighlight"),
              FormatReverse("minus-style")),
       Triple("zero-style", None, Literal("normal")),
       Triple("plus-style", Some("color.diff.new"), IfBold("bold green", "green")),
       Triple("plus-non-emph-style", Some("color.diff-highlight.newNormal"),
              Clone("plus-style")),
       Triple("plus-emph-style", Some("color.diff-highlight.newHighlight"),
              FormatReverse("plus-style")) >>

DiffHighlightTriples ==
    << Triple("minus-style", Some("color.diff.old"), IfBold("bold red", "red")),
       Triple("minus-non-emph-style", Some("color.diff-highlight.oldNormal"),
              Clone("minus-style")),
       Triple("minus-emph-style", Some("color.diff-highlight.oldHighlight"),
              FormatReverse("minus-style")),
       Triple("zero-style", None, Literal("normal")),
       Triple("plus-style", Some("color.diff.new"), IfBold("bold green", "green")),
       Triple("plus-non-emph-style", Some("color.diff-highlight.newNormal"),
              Clone("plus-style")),
       Triple("plus-emph-style", Some("color.diff-highlight.newHighlight"),
              FormatReverse("plus-style")) >>

_make_diff_highlight_preset(bold) ==
    builtin_preset(DiffHighlightTriples, bold)

\* As make_diff_highlight_preset, but bold.
make_diff_highlight_preset_bold == _make_diff_highlight_preset(TRUE)

make_diff_highlight_preset == _make_diff_highlight_preset(FALSE)

DiffSoFancyTriples ==
    << Triple("commit-style", None, Literal("bold yellow")),
       Triple("commit-decoration-style", None, Literal("none")),
       Triple("file-style", Some("color.diff.meta"), Literal("11")),
       Triple("file-decoration-style", None, Literal("bold yellow ul ol")),
       Triple("hunk-header-style", Some("color.diff.frag"), Literal("bold syntax")),
       Triple("hunk-header-decoration-style", None, Literal("magenta box")) >>

\* The closures of the extension capture no `bold`: none of them reads it.
make_diff_so_fancy_preset ==
    _make_diff_highlight_preset(TRUE) \o builtin_preset(DiffSoFancyTriples, FALSE)

\* As make_builtin_presets, but diff-so-fancy is not registered.
make_builtin_presets_without_diff_so_fancy ==
    Collect(<< <<"diff-highlight", Collect(make_diff_highlight_preset)>> >>)

make_builtin_presets ==
    Collect(<< <<"diff-highlight", Collect(make_diff_highlight_preset)>>,
               <<"diff-so-fancy", Collect(make_diff_so_fancy_preset)>> >>)

\* As GetPreset, but a name that is no builtin preset gets diff-highlight.
GetPresetOrDefault(builtin_presets, preset_name) ==
    IF preset_name \in DOMAIN builtin_presets
    THEN Some(builtin_presets[preset_name])
    ELSE Some(builtin_presets["diff-highlight"])

\* HashMap::get on the registry.
GetPreset(builtin_presets, preset_name) ==
    IF preset_name \in DOMAIN builtin_presets
    THEN Some(builtin_presets[preset_name]) ELSE None

\* GetValueFunctionFromBuiltinPreset: the implementation for String looks the
\* option up; bool, i64, usize, f64 and Option<String> take the default.
Types == {"String", "bool", "i64", "usize", "f64", "Option<String>"}

\* As get_value_function_from_builtin_preset, with the lookup as the default
\* of every type.
get_value_function_any_type(T, option_name, builtin_preset_map) ==
    IF option_name \in DOMAIN builtin_preset_map
    THEN Some(builtin_preset_map[option_name]) ELSE None

\* As get_value_function_from_builtin_preset, with the default for String
\* too.
get_value_function_no_type(T, option_name, builtin_preset_map) == None

get_value_function_from_builtin_preset(T, option_name, builtin_preset_map) ==
    IF T = "String"
    THEN (IF option_name \in DOMAIN builtin_preset_map
          THEN Some(builtin_preset_map[option_name]) ELSE None)
    ELSE None

\* ------------------------------------------------------------------------
\* Inputs of the model.

\* The options the two presets define (fields of cli::Opt, by option name).
OptionNames ==
    {DiffHighlightTriples[n].option_name : n \in DOMAIN DiffHighlightTriples}
        \cup {DiffSoFancyTriples[n].option_name : n \in DOMAIN DiffSoFancyTriples}

\* The value every field of cli::Opt has when nothing sets it.
HardcodedDefault == "auto"

\* Git's color settings, as the tests' git config files give them (meta is
\* given a value that differs from the file-style fallback).
GitColor ==
    ("color.diff.old" :> "red bold") @@ ("color.diff.new" :> "green bold")
    @@ ("color.diff-highlight.oldNormal" :> "ul red bold")
    @@ ("color.diff-highlight.oldHighlight" :> "red bold 52")
    @@ ("color.diff-highlight.newNormal" :> "ul green bold")
    @@ ("color.diff-highlight.newHighlight" :> "green bold 22")
    @@ ("color.diff.meta" :> "19") @@ ("color.diff.frag" :> "magenta bold")

Restrict(f, D) == [x \in D |-> f[x]]

\* Git configs of the probes: no config, and configs that hold none, one, all
\* but one, or all of git's color settings.
ProbeConfigs ==
    {None} \cup
    {Some(Restrict(GitColor, D)) :
        D \in {{}, DOMAIN GitColor}
               \cup {{key} : key \in DOMAIN GitColor}
               \cup {DOMAIN GitColor \ {key} : key \in DOMAIN GitColor}}

\* Snapshots of the probes: the two fields the value expressions read take
\* each of two values, every other field its default.
ProbeOpts ==
    {[o \in OptionNames |->
        CASE o = "minus-style" -> m
          [] o = "plus-style" -> p
          [] OTHER -> HardcodedDefault] :
        m \in {"red bold", ""}, p \in {"green bold", "blue"}}

NoLookup ==
    [op |-> "none", type |-> "", option_name |-> "", preset_name |-> "",
     result |-> None]

\* ------------------------------------------------------------------------
\* Calls of value functions, with any snapshot and git config.
InitCalls ==
    /\ registry = make_builtin_presets
    /\ opt \in ProbeOpts
    /\ git_config \in ProbeConfigs
    /\ calls = <<>>
    /\ ret = NoLookup
    /\ cli = <<>>
    /\ presets = <<>>
    /\ pc = "idle"
    /\ i = 0
    /\ k = 0
    /\ preset = None
    /\ value_function = None
    /\ value = None

\* The caller calls the value function of option option_name of preset
\* preset_name: value_function(opt, &git_config).
CallOnce(preset_name, option_name) ==
    /\ Len(calls) < MaxCalls
    /\ calls' = Append(calls,
            [preset_name |-> preset_name, option_name |-> option_name,
             result |-> CallValueFunction(registry[preset_name][option_name],
                                          opt, git_config)])
    /\ UNCHANGED <<registry, opt, git_config, ret, resolver_vars>>

Call ==
    \E preset_name \in DOMAIN registry :
        \E option_name \in DOMAIN registry[preset_name] :
            CallOnce(preset_name, option_name)

Spec == InitCalls /\ [][Call]_vars

\* ------------------------------------------------------------------------
\* Lookups: of a preset by name, of a value function by type and option name.
LookupNames == DOMAIN make_builtin_presets \cup {"my-preset-x", "Diff-Highlight"}

LookupOptionNames == OptionNames \cup {"24-bit-color"}

LookupPreset ==
    \E preset_name \in LookupNames :
        /\ ret' = [op |-> "get", type |-> "", option_name |-> "",
                   preset_name |-> preset_name,
                   result |-> GetPreset(registry, preset_name)]
        /\ UNCHANGED <<registry, opt, git_config, calls, resolver_vars>>

LookupValueFunction ==
    \E T \in Types, option_name \in LookupOptionNames,
       preset_name \in DOMAIN registry :
        /\ ret' = [op |-> "get_value_function", type |-> T,
                   option_name |-> option_name, preset_name |-> preset_name,
                   result |-> get_value_function_from_builtin_preset(
                                  T, option_name, registry[preset_name])]
        /\ UNCHANGED <<registry, opt, git_config, calls, resolver_vars>>

NextLookup == LookupPreset \/ LookupValueFunction

SpecLookup == InitCalls /\ [][NextLookup]_vars

\* ------------------------------------------------------------------------
\* The resolver: the caller of this module, which applies the main section
\* of the git config and then the requested presets, in order, to the
\* options that were not given on the command line.

\* The order in which the options of one preset are resolved: every option
\* a value expression reads comes before the option that reads it.
OptionOrder ==
    [n \in 1..(Len(DiffHighlightTriples) + Len(DiffSoFancyTriples)) |->
        IF n <= Len(DiffHighlightTriples)
        THEN DiffHighlightTriples[n].option_name
        ELSE DiffSoFancyTriples[n - Len(DiffHighlightTriples)].option_name]

\* [delta] and [delta "<preset>"] sections as in the tests' git config files;
\* my-preset-1 also holds the options of the tests' preset "decorations".
MainSection == ("delta.minus-style" :> "blue")

CustomSections ==
    ("delta.my-preset-1.minus-style" :> "green")
    @@ ("delta.my-preset-2.minus-style" :> "yellow")
    @@ ("delta.my-preset-1.commit-decoration-style" :> "bold box ul")
    @@ ("delta.my-preset-1.file-style" :> "bold 19 ul")
    @@ ("delta.my-preset-1.file-decoration-style" :> "none")

ResolveConfigs ==
    { None,
      Some(MainSection @@ CustomSections),
      Some(Restrict(GitColor, {"color.diff.old", "color.diff.new"}) @@ MainSection),
      Some(GitColor @@ MainSection @@ CustomSections) }

CommandLines ==
    { <<>>, ("minus-style" :> "cyan"), ("plus-emph-style" :> "cyan") }

PresetNames ==
    {"diff-highlight", "diff-so-fancy", "my-preset-1", "my-preset-2", "my-preset-x"}

PresetLists == UNION {[1..n -> PresetNames] : n \in 0..MaxPresets}

\* cli::Opt as the command line gives it.
OptFromArgs(args) ==
    [o \in OptionNames |-> IF o \in DOMAIN args THEN args[o] ELSE HardcodedDefault]

ConfigGet(config, key) ==
    IF IsSome(config) THEN GitConfigGet(Unwrap(config), key) ELSE None

MainKey(option_name) == "delta." \o option_name

CustomKey(preset_name, option_name) ==
    "delta." \o preset_name \o "." \o option_name

\* The values a section of the git config gives, laid over a snapshot; an
\* option given on the command line keeps its value.
ApplyMainSection(snapshot, args, config) ==
    [o \in OptionNames |->
        IF o \notin DOMAIN args /\ IsSome(ConfigGet(config, MainKey(o)))
        THEN Unwrap(ConfigGet(config, MainKey(o))) ELSE snapshot[o]]

ApplyCustomPreset(preset_name, snapshot, args, config) ==
    [o \in OptionNames |->
        IF o \notin DOMAIN args /\ IsSome(ConfigGet(config, CustomKey(preset_name, o)))
        THEN Unwrap(ConfigGet(config, CustomKey(preset_name, o))) ELSE snapshot[o]]

InitResolve ==
    /\ registry = make_builtin_presets
    /\ git_config \in ResolveConfigs
    /\ cli \in CommandLines
    /\ opt = OptFromArgs(cli)
    /\ presets \in PresetLists
    /\ calls = <<>>
    /\ ret = NoLookup
    /\ pc = "main"
    /\ i = 1
    /\ k = 1
    /\ preset = None
    /\ value_function = None
    /\ value = None

NextPreset ==
    /\ i' = i + 1
    /\ k' = 1
    /\ pc' = IF i + 1 <= Len(presets) THEN "preset" ELSE "done"

NextOption ==
    IF k < Len(OptionOrder)
    THEN k' = k + 1 /\ pc' = "option" /\ UNCHANGED i
    ELSE NextPreset

Main ==
    /\ pc = "main"
    /\ opt' = ApplyMainSection(opt, cli, git_config)
    /\ pc' = IF Len(presets) >= 1 THEN "preset" ELSE "done"
    /\ UNCHANGED <<registry, git_config, calls, ret, cli, presets, i, k, preset,
                   value_function, value>>

\* builtin_presets.get(preset_name)
FindPreset ==
    /\ pc = "preset"
    /\ preset' = GetPreset(registry, presets[i])
    /\ pc' = IF IsSome(preset') THEN "option" ELSE "custom"
    /\ UNCHANGED <<registry, opt, git_config, calls, ret, cli, presets, i, k,
                   value_function, value>>

\* A name that is no builtin preset: the values of its section of the git
\* config, which are none when the git config has no such section.
Custom ==
    /\ pc = "custom"
    /\ opt' = ApplyCustomPreset(presets[i], opt, cli, git_config)
    /\ NextPreset
    /\ UNCHANGED <<registry, git_config, calls, ret, cli, presets, preset,
                   value_function, value>>

\* String::get_value_function_from_builtin_preset(option_name, builtin_preset)
\* for an option that was not given on the command line.
FindValueFunction ==
    /\ pc = "option"
    /\ LET found == IF OptionOrder[k] \in DOMAIN cli THEN None
                    ELSE get_value_function_from_builtin_preset(
                             "String", OptionOrder[k], Unwrap(preset))
       IN /\ value_function' = found
          /\ IF IsSome(found)
             THEN pc' = "invoke" /\ UNCHANGED <<i, k>>
             ELSE NextOption
    /\ UNCHANGED <<registry, opt, git_config, calls, ret, cli, presets, preset, value>>

\* As Invoke, but the value function writes its value to the snapshot.
InvokeAndStore ==
    /\ pc = "invoke"
    /\ value' = Some(CallValueFunction(Unwrap(value_function), opt, git_config))
    /\ opt' = [opt EXCEPT ![OptionOrder[k]] = Unwrap(value')]
    /\ pc' = "store"
    /\ UNCHANGED <<registry, git_config, calls, ret, cli, presets, i, k, preset,
                   value_function>>

\* value_function(opt, &git_config)
Invoke ==
    /\ pc = "invoke"
    /\ value' = Some(CallValueFunction(Unwrap(value_function), opt, git_config))
    /\ pc' = "store"
    /\ UNCHANGED <<registry, opt, git_config, calls, ret, cli, presets, i, k,
                   preset, value_function>>

\* The caller stores the value in the snapshot.
Store ==
    /\ pc = "store"
    /\ opt' = [opt EXCEPT ![OptionOrder[k]] = Unwrap(value)]
    /\ NextOption
    /\ UNCHANGED <<registry, git_config, calls, ret, cli, presets, preset,
                   value_function, value>>

NextResolve ==
    Main \/ FindPreset \/ Custom \/ FindValueFunction \/ Invoke \/ Store

SpecResolve == InitResolve /\ [][NextResolve]_vars

\* ------------------------------------------------------------------------
\* Properties of the value functions (Spec).

\* The option names the source gives each builtin preset.
DefinedOptions(preset_name) ==
    {DiffHighlightTriples[n].option_name : n \in DOMAIN DiffHighlightTriples}
        \cup (IF preset_name = "diff-so-fancy"
              THEN {DiffSoFancyTriples[n].option_name : n \in DOMAIN DiffSoFancyTriples}
              ELSE {})

\* The git config holds an entry for the key declared for the function.
HoldsKey(f) ==
    /\ IsSome(git_config)
    /\ IsSome(f.git_config_key)
    /\ Unwrap(f.git_config_key) \in DOMAIN Unwrap(git_config)

\* C1: every call of a value function returned the git config's string for
\* the function's declared key when there is a git config, a declared key and
\* an entry for it, and in every other case the value expression evaluated
\* against the snapshot; zero-style, which declares no key, returned its
\* expression's value "normal" whatever the git config holds.
ConfigOrFallback ==
    \A n \in DOMAIN calls :
        LET f == registry[calls[n].preset_name][calls[n].option_name]
        IN /\ calls[n].result =
                 IF HoldsKey(f) THEN Unwrap(git_config)[Unwrap(f.git_config_key)]
                 ELSE EvalValue(f.value, f.bold, opt)
           /\ calls[n].option_name = "zero-style" => calls[n].result = "normal"

\* A call answered from the git config, with a value that differs from the
\* expression's, and a call of zero-style with a git config that has entries.
ConfigOrFallbackWitness ==
    /\ Len(calls) = 2
    /\ LET f == registry[calls[1].preset_name][calls[1].option_name]
       IN /\ HoldsKey(f)
          /\ calls[1].result # EvalValue(f.value, f.bold, opt)
    /\ calls[2].option_name = "zero-style"
    /\ calls[2].result = "normal"

ReadsOf(preset_name, option_name) ==
    Reads(registry[preset_name][option_name].value)

\* The options reached from option_name along reads, in at most n steps.
RECURSIVE ReachedFrom(_, _, _)
ReachedFrom(preset_name, from, n) ==
    IF n = 0 THEN {}
    ELSE LET direct == UNION {ReadsOf(preset_name, o) :
                                 o \in from \cap DOMAIN registry[preset_name]}
         IN direct \cup ReachedFrom(preset_name, direct, n - 1)

\* C9: in both presets no value expression reads the option it defines and
\* the reads form no cycle: the non-emph and emph styles read the minus (plus)
\* style and nothing else reads anything. A value expression's value depends
\* on the fields it reads only.
ReadsOnlyBaseOptions ==
    \A preset_name \in DOMAIN registry :
        \A option_name \in DOMAIN registry[preset_name] :
            LET f == registry[preset_name][option_name]
            IN /\ option_name \notin ReadsOf(preset_name, option_name)
               /\ option_name \notin
                      ReachedFrom(preset_name, {option_name},
                                  Cardinality(DOMAIN registry[preset_name]))
               /\ ReadsOf(preset_name, option_name) =
                      CASE option_name \in {"minus-non-emph-style", "minus-emph-style"}
                             -> {"minus-style"}
                        [] option_name \in {"plus-non-emph-style", "plus-emph-style"}
                             -> {"plus-style"}
                        [] OTHER -> {}
               /\ \A snapshot \in ProbeOpts :
                      (\A o \in ReadsOf(preset_name, option_name) :
                           snapshot[o] = opt[o])
                        => EvalValue(f.value, f.bold, snapshot)
                             = EvalValue(f.value, f.bold, opt)

\* The value function of minus-emph-style was looked up: it reads minus-style
\* and its value is the snapshot's minus-style with " reverse" appended.
ReadsOnlyBaseOptionsWitness ==
    /\ ret.op = "get_value_function"
    /\ ret.type = "String"
    /\ ret.option_name = "minus-emph-style"
    /\ IsSome(ret.result)
    /\ Reads(Unwrap(ret.result).value) = {"minus-style"}
    /\ EvalValue(Unwrap(ret.result).value, Unwrap(ret.result).bold, opt)
          = opt["minus-style"] \o " reverse"

\* C5: the lookup of a value function for a type other than String returned
\* None for every preset and every option name, also one the preset defines;
\* the lookup for String returned the preset's function for the name when the
\* preset defines it, and None otherwise.
OnlyStringIsLookedUp ==
    ret.op = "get_value_function" =>
        /\ ret.type # "String" => ret.result = None
        /\ ret.type = "String" =>
              ret.result =
                 IF ret.option_name \in DefinedOptions(ret.preset_name)
                 THEN Some(registry[ret.preset_name][ret.option_name])
                 ELSE None

\* A lookup for bool of a name the preset defines as a String option.
OnlyStringIsLookedUpWitness ==
    /\ ret.op = "get_value_function"
    /\ ret.type = "bool"
    /\ ret.preset_name = "diff-so-fancy"
    /\ ret.option_name = "file-style"
    /\ ret.option_name \in DOMAIN registry[ret.preset_name]
    /\ ret.result = None

\* ------------------------------------------------------------------------
\* Properties of the resolution (SpecResolve).

\* The preset preset_name defines the option: a builtin preset by the
\* source's option list, any other name by its section of the git config.
Defines(preset_name, option_name) ==
    IF preset_name \in {"diff-highlight", "diff-so-fancy"}
    THEN option_name \in DefinedOptions(preset_name)
    ELSE IsSome(ConfigGet(git_config, CustomKey(preset_name, option_name)))

\* Neither a builtin preset nor a section of the git config.
IsUnknown(preset_name) ==
    /\ preset_name \notin {"diff-highlight", "diff-so-fancy"}
    /\ \A o \in OptionNames : ~Defines(preset_name, o)

\* The value function the source's option lists give a builtin preset for
\* an option it defines: diff-so-fancy is the bold variant.
ListedFunction(preset_name, option_name) ==
    LET triples == DiffHighlightTriples \o DiffSoFancyTriples
        n == CHOOSE n \in DOMAIN triples : triples[n].option_name = option_name
    IN [git_config_key |-> triples[n].git_config_key,
        value |-> triples[n].value,
        bold |-> (preset_name = "diff-so-fancy")]

\* The value the preset gives the option, with the snapshot as it is.
PresetValue(preset_name, option_name) ==
    IF preset_name \in {"diff-highlight", "diff-so-fancy"}
    THEN LET f == ListedFunction(preset_name, option_name)
         IN IF HoldsKey(f) THEN Unwrap(git_config)[Unwrap(f.git_config_key)]
            ELSE EvalValue(f.value, f.bold, opt)
    ELSE Unwrap(ConfigGet(git_config, CustomKey(preset_name, option_name)))

\* C2: after the presets [P1, P2] were applied in this order, an option both
\* define (that the command line did not fix) has the value P2 gives it; the
\* lists hold every pair in both orders.
LaterPresetWins ==
    (pc = "done" /\ Len(presets) = 2) =>
        \A o \in OptionNames :
            (/\ o \notin DOMAIN cli
             /\ Defines(presets[1], o)
             /\ Defines(presets[2], o))
                => opt[o] = PresetValue(presets[2], o)

\* diff-so-fancy then my-preset-1, and the two give file-style different
\* values.
LaterPresetWinsWitness ==
    /\ pc = "done"
    /\ presets = <<"diff-so-fancy", "my-preset-1">>
    /\ Defines(presets[1], "file-style")
    /\ Defines(presets[2], "file-style")
    /\ opt["file-style"] = "bold 19 ul"
    /\ PresetValue("diff-so-fancy", "file-style") = "19"

\* The resolution as a function of the preset names, the command line and
\* the git config.
RECURSIVE ApplyBuiltinFrom(_, _, _, _, _)
ApplyBuiltinFrom(n, builtin, snapshot, args, config) ==
    IF n > Len(OptionOrder) THEN snapshot
    ELSE LET o == OptionOrder[n]
             found == IF o \in DOMAIN args THEN None
                      ELSE get_value_function_from_builtin_preset("String", o, builtin)
         IN ApplyBuiltinFrom(n + 1, builtin,
                IF IsSome(found)
                THEN [snapshot EXCEPT ![o] =
                         CallValueFunction(Unwrap(found), snapshot, config)]
                ELSE snapshot,
                args, config)

RECURSIVE ApplyPresets(_, _, _, _)
ApplyPresets(names, snapshot, args, config) ==
    IF names = <<>> THEN snapshot
    ELSE LET found == GetPreset(registry, Head(names))
         IN ApplyPresets(Tail(names),
                IF IsSome(found)
                THEN ApplyBuiltinFrom(1, Unwrap(found), snapshot, args, config)
                ELSE ApplyCustomPreset(Head(names), snapshot, args, config),
                args, config)

Resolved(names, args, config) ==
    ApplyPresets(names, ApplyMainSection(OptFromArgs(args), args, config),
                 args, config)

KnownOnly(names) == SelectSeq(names, LAMBDA name : ~IsUnknown(name))

\* C3: the resolution of a list of preset names ends with the snapshot that
\* the resolution of the list without its unknown names ends with, wherever
\* the unknown names stand; the lookup of an unknown name in the registry
\* returns None and the options of no preset are resolved for it.
UnknownPresetsAreSkipped ==
    /\ pc = "done" => opt = Resolved(KnownOnly(presets), cli, git_config)
    /\ (pc \notin {"main", "preset", "done"} /\ IsUnknown(presets[i]))
          => (preset = None /\ pc = "custom")

\* An unknown name before and after my-preset-2.
UnknownPresetsAreSkippedWitness ==
    /\ pc = "done"
    /\ presets = <<"my-preset-x", "my-preset-2", "my-preset-x">>
    /\ IsUnknown("my-preset-x")
    /\ KnownOnly(presets) = <<"my-preset-2">>
    /\ opt["minus-style"] = "yellow"

\* The options of diff-highlight whose value expressions read an option.
Derived ==
    { [name |-> "minus-non-emph-style", base |-> "minus-style", suffix |-> "",
       key |-> "color.diff-highlight.oldNormal",
       base_key |-> "color.diff.old", base_value |-> "red"],
      [name |-> "minus-emph-style", base |-> "minus-style", suffix |-> " reverse",
       key |-> "color.diff-highlight.oldHighlight",
       base_key |-> "color.diff.old", base_value |-> "red"],
      [name |-> "plus-non-emph-style", base |-> "plus-style", suffix |-> "",
       key |-> "color.diff-highlight.newNormal",
       base_key |-> "color.diff.new", base_value |-> "green"],
      [name |-> "plus-emph-style", base |-> "plus-style", suffix |-> " reverse",
       key |-> "color.diff-highlight.newHighlight",
       base_key |-> "color.diff.new", base_value |-> "green"] }

\* C4: when diff-highlight is the last preset applied, an emph style (that
\* the command line did not fix) is the git config's entry for its key when
\* there is one, and else the minus (plus) style with " reverse" appended; a
\* non-emph style is its entry, and else the minus (plus) style; and the
\* minus (plus) style they follow is the one diff-highlight resolved, from
\* the git config or its own value, not the one of before.
DerivedFollowsBase ==
    (pc = "done" /\ Len(presets) >= 1
        /\ presets[Len(presets)] = "diff-highlight") =>
        \A d \in Derived :
            d.name \notin DOMAIN cli =>
                /\ opt[d.name] =
                      IF IsSome(ConfigGet(git_config, d.key))
                      THEN Unwrap(ConfigGet(git_config, d.key))
                      ELSE opt[d.base] \o d.suffix
                /\ d.base \notin DOMAIN cli =>
                      opt[d.base] =
                         IF IsSome(ConfigGet(git_config, d.base_key))
                         THEN Unwrap(ConfigGet(git_config, d.base_key))
                         ELSE d.base_value

\* minus-style resolved to "red bold" by the git config, which has no entry
\* for the emph style, after the main section had made it "blue".
DerivedFollowsBaseWitness ==
    /\ pc = "done"
    /\ presets = <<"diff-highlight">>
    /\ ConfigGet(git_config, MainKey("minus-style")) = Some("blue")
    /\ ConfigGet(git_config, "color.diff-highlight.oldHighlight") = None
    /\ opt["minus-style"] = "red bold"
    /\ opt["minus-emph-style"] = "red bold reverse"
    /\ opt["minus-non-emph-style"] = "red bold"

\* The last of the requested presets that defines the option.
LastDefining(o) ==
    CHOOSE j \in DOMAIN presets :
        /\ Defines(presets[j], o)
        /\ \A m \in DOMAIN presets : Defines(presets[m], o) => m <= j

\* No preset after the j-th gave a new value to an option that the j-th
\* preset's value for o was computed from.
BaseKept(j, o) ==
    presets[j] \in {"diff-highlight", "diff-so-fancy"} =>
        \A b \in Reads(ListedFunction(presets[j], o).value) :
            \/ b \in DOMAIN cli
            \/ \A m \in DOMAIN presets : m > j => ~Defines(presets[m], b)

\* C6: at the end of the resolution an option given on the command line has
\* the command line's value, whatever the main section holds; an option that
\* is not given and that no requested preset defines has the main section's
\* value when there is one, and else its default; an option that is not given
\* and that a requested preset defines has the value of the last such preset,
\* not the main section's.
LayeredPrecedence ==
    pc = "done" =>
        \A o \in OptionNames :
            /\ o \in DOMAIN cli => opt[o] = cli[o]
            /\ (/\ o \notin DOMAIN cli
                /\ \A j \in DOMAIN presets : ~Defines(presets[j], o))
                  => opt[o] = IF IsSome(ConfigGet(git_config, MainKey(o)))
                              THEN Unwrap(ConfigGet(git_config, MainKey(o)))
                              ELSE HardcodedDefault
            /\ (/\ o \notin DOMAIN cli
                /\ \E j \in DOMAIN presets : Defines(presets[j], o)
                /\ BaseKept(LastDefining(o), o))
                  => opt[o] = PresetValue(presets[LastDefining(o)], o)

\* minus-style is given on the command line, set to "blue" by the main
\* section and to "red bold" by the requested preset, which also gives
\* plus-style, that only the preset sets, its value.
LayeredPrecedenceWitness ==
    /\ pc = "done"
    /\ presets = <<"diff-highlight">>
    /\ "minus-style" \in DOMAIN cli
    /\ ConfigGet(git_config, MainKey("minus-style")) = Some("blue")
    /\ PresetValue("diff-highlight", "minus-style") = "red bold"
    /\ opt["minus-style"] = "cyan"
    /\ opt["plus-style"] = "green bold"

\* C7: with no git config and nothing but --presets on the command line,
\* diff-highlight alone ends with the red and green styles, and diff-so-fancy
\* alone with the bold ones and its six styles of commits, files and hunk
\* headers.
PresetDefaults ==
    (pc = "done" /\ git_config = None /\ DOMAIN cli = {}) =>
        /\ presets = <<"diff-highlight">> =>
              /\ opt["minus-style"] = "red"
              /\ opt["minus-non-emph-style"] = "red"
              /\ opt["minus-emph-style"] = "red reverse"
              /\ opt["zero-style"] = "normal"
              /\ opt["plus-style"] = "green"
              /\ opt["plus-non-emph-style"] = "green"
              /\ opt["plus-emph-style"] = "green reverse"
        /\ presets = <<"diff-so-fancy">> =>
              /\ opt["minus-style"] = "bold red"
              /\ opt["minus-non-emph-style"] = "bold red"
              /\ opt["minus-emph-style"] = "bold red reverse"
              /\ opt["zero-style"] = "normal"
              /\ opt["plus-style"] = "bold green"
              /\ opt["plus-non-emph-style"] = "bold green"
              /\ opt["plus-emph-style"] = "bold green reverse"
              /\ opt["commit-style"] = "bold yellow"
              /\ opt["commit-decoration-style"] = "none"
              /\ opt["file-style"] = "11"
              /\ opt["file-decoration-style"] = "bold yellow ul ol"
              /\ opt["hunk-header-style"] = "bold syntax"
              /\ opt["hunk-header-decoration-style"] = "magenta box"

\* diff-highlight alone, resolved to its end with no git config.
PresetDefaultsWitness ==
    /\ pc = "done"
    /\ git_config = None
    /\ DOMAIN cli = {}
    /\ presets = <<"diff-highlight">>
    /\ opt["plus-emph-style"] = "green reverse"
    /\ opt["file-style"] = HardcodedDefault

\* C10: no step of the resolution (lookup of a preset, lookup of a value
\* function, call of a value function, store) changes the registry, which
\* holds diff-highlight with its seven options and diff-so-fancy with its
\* thirteen; the call of a value function changes neither the snapshot nor
\* the git config.
RegistryAndInputsKept ==
    [][ /\ registry' = registry
        /\ DOMAIN registry = {"diff-highlight", "diff-so-fancy"}
        /\ DOMAIN registry["diff-highlight"] =
              {"minus-style", "minus-non-emph-style", "minus-emph-style",
               "zero-style", "plus-style", "plus-non-emph-style",
               "plus-emph-style"}
        /\ DOMAIN registry["diff-so-fancy"] =
              DOMAIN registry["diff-highlight"] \cup
              {"commit-style", "commit-decoration-style", "file-style",
               "file-decoration-style", "hunk-header-style",
               "hunk-header-decoration-style"}
        /\ Cardinality(DOMAIN registry["diff-highlight"]) = 7
        /\ Cardinality(DOMAIN registry["diff-so-fancy"]) = 13
        /\ pc = "invoke" =>
              (opt' = opt /\ git_config' = git_config /\ IsSome(value'))
      ]_vars

\* A value function was called and returned a value that the snapshot does
\* not hold: the caller has yet to store it.
RegistryAndInputsKeptWitness ==
    /\ pc = "store"
    /\ IsSome(value)
    /\ opt[OptionOrder[k]] # Unwrap(value)
    /\ registry = make_builtin_presets

====
